---- MODULE Spec2Model ----
(***************************************************************************)
(* datapulse: the JSON catalog store, the format resolver, the dataset     *)
(* materializer (load_df) and the DuckDB query facade (run_sql).           *)
(*                                                                         *)
(* Python strings are modelled as sequences of one-character strings, so   *)
(* that lower(), lstrip(), replace(), strip(), pathlib's suffix and the    *)
(* sort order of JSON keys are computed as the code computes them.         *)
(***************************************************************************)
EXTENDS Integers, Sequences, FiniteSets, TLC

VARIABLES
    doc,        \* .datapulse/catalog.json: [exists, members] (members in file order)
    catdir,     \* whether the directory .datapulse exists
    model,      \* history: the map obtained by applying the successful operations to {}
    removed,    \* history: names removed and not added again since
    ret,        \* outcome of the last completed operation
    pc,         \* position of the process inside run_sql ("idle" outside)
    con,        \* the DuckDB connection held by the running run_sql
    sessions,   \* ids of the engine sessions currently open
    opened,     \* number of engine sessions opened so far
    frame,      \* locals of the running run_sql: sql, register, catalog, idx, err, val
    procs,      \* two racing processes: per process pc, operation, local catalog
    lastSaved,  \* history: the in-memory catalog handed to the last _save_catalog
    fpath,      \* input of the format resolver
    fres,       \* its outcome
    qname,      \* input of _quote_ident
    qout,       \* its result
    qstmt       \* the statement the binder generates from it

vars == <<doc, catdir, model, removed, ret, pc, con, sessions, opened, frame,
          procs, lastSaved, fpath, fres, qname, qout, qstmt>>

(***************************************************************************)
(* Bounds                                                                  *)
(***************************************************************************)
MaxSessions == 2   \* engine sessions opened in one run of the model
MaxLimit == 2      \* largest row limit passed to load_df
MaxNameLen == 4    \* longest name handed to _quote_ident
MaxStem == 2       \* longest file stem handed to _infer_format
MaxRaceOps == 2    \* operations each racing process runs

(***************************************************************************)
(* Strings                                                                 *)
(***************************************************************************)
None == <<>>
Some(x) == <<x>>

UpperCh == <<"A","B","C","D","E","F","G","H","I","J","K","L","M",
             "N","O","P","Q","R","S","T","U","V","W","X","Y","Z">>
LowerCh == <<"a","b","c","d","e","f","g","h","i","j","k","l","m",
             "n","o","p","q","r","s","t","u","v","w","x","y","z">>

\* code points of the characters that occur in catalog names
Code(c) ==
    CASE c = " " -> 32
      [] c = "\"" -> 34
      [] c = "." -> 46
      [] c = "_" -> 95
      [] \E i \in 1..26 : UpperCh[i] = c -> 64 + (CHOOSE i \in 1..26 : UpperCh[i] = c)
      [] \E i \in 1..26 : LowerCh[i] = c -> 96 + (CHOOSE i \in 1..26 : LowerCh[i] = c)
      [] OTHER -> 0

\* str.lower() on one character, then on a string
LowerChar(c) ==
    IF \E i \in 1..26 : UpperCh[i] = c
    THEN LowerCh[CHOOSE i \in 1..26 : UpperCh[i] = c]
    ELSE c

Lower(s) == [i \in 1..Len(s) |-> LowerChar(s[i])]

\* Python's < on str: lexicographic by code point, a proper prefix is smaller
RECURSIVE StrLess(_, _)
StrLess(s, t) ==
    IF t = <<>> THEN FALSE
    ELSE IF s = <<>> THEN TRUE
    ELSE IF Code(Head(s)) # Code(Head(t)) THEN Code(Head(s)) < Code(Head(t))
    ELSE StrLess(Tail(s), Tail(t))

\* str.lstrip(".")
RECURSIVE LStripDot(_)
LStripDot(s) ==
    IF s # <<>> /\ Head(s) = "." THEN LStripDot(Tail(s)) ELSE s

\* str.strip(): leading and trailing whitespace removed
RECURSIVE LStrip(_)
LStrip(s) ==
    IF s # <<>> /\ Head(s) = " " THEN LStrip(Tail(s)) ELSE s

RECURSIVE RStrip(_)
RStrip(s) ==
    IF s # <<>> /\ s[Len(s)] = " " THEN RStrip(SubSeq(s, 1, Len(s) - 1)) ELSE s

Strip(s) == RStrip(LStrip(s))

\* " ".join(parts)
RECURSIVE JoinSpace(_)
JoinSpace(parts) ==
    IF parts = <<>> THEN <<>>
    ELSE IF Len(parts) = 1 THEN parts[1]
    ELSE parts[1] \o <<" ">> \o JoinSpace(Tail(parts))

\* all strings over an alphabet of length at most n
StringsUpTo(alphabet, n) == UNION {[1..k -> alphabet] : k \in 0..n}

(***************************************************************************)
(* Identifier quoting                                                      *)
(***************************************************************************)
\* name.replace('"', '""')
RECURSIVE DoubleQuotes(_)
DoubleQuotes(s) ==
    IF s = <<>> THEN <<>>
    ELSE IF Head(s) = "\"" THEN <<"\"", "\"">> \o DoubleQuotes(Tail(s))
    ELSE <<Head(s)>> \o DoubleQuotes(Tail(s))

\* a plausible slip: the embedded quotes are not doubled
quote_ident_noescape(name) == <<"\"">> \o name \o <<"\"">>

_quote_ident(name) == <<"\"">> \o DoubleQuotes(name) \o <<"\"">>

(***************************************************************************)
(* Format resolver                                                         *)
(***************************************************************************)
EXT_CSV == <<".","c","s","v">>
EXT_PARQUET == <<".","p","a","r","q","u","e","t">>
EXT_PQ == <<".","p","q">>
EXT_SQLITE == <<".","s","q","l","i","t","e">>
EXT_DB == <<".","d","b">>

SUPPORTED_EXTS == {EXT_CSV, EXT_PARQUET, EXT_PQ, EXT_SQLITE, EXT_DB}

csv == <<"c","s","v">>
parquet == <<"p","a","r","q","u","e","t">>
sqlite == <<"s","q","l","i","t","e">>
db == <<"d","b">>

\* pathlib: the final path component (paths here end in a file name)
RECURSIVE PathName(_)
PathName(path) ==
    IF \E i \in 1..Len(path) : path[i] = "/"
    THEN PathName(Tail(path))
    ELSE path

\* str.rfind("."), 1-based, 0 when absent
RFindDot(s) ==
    IF \E i \in 1..Len(s) : s[i] = "."
    THEN CHOOSE i \in 1..Len(s) : s[i] = "." /\ \A j \in (i+1)..Len(s) : s[j] # "."
    ELSE 0

\* pathlib.PurePath.suffix (name.rfind('.'), 0 < i < len(name) - 1): from the
\* last dot of the name, unless that dot is the name's first or last character
PathSuffix(path) ==
    LET name == PathName(path)
        i == RFindDot(name)
    IN IF 1 < i /\ i < Len(name) THEN SubSeq(name, i, Len(name)) ELSE <<>>

NoErr == [kind |-> "none", ext |-> <<>>, supported |-> {}]
ErrKind(k) == [kind |-> k, ext |-> <<>>, supported |-> {}]
UnsupportedExt(ext) == [kind |-> "UnsupportedExt", ext |-> ext, supported |-> SUPPORTED_EXTS]

\* plausible slips of the resolver
infer_format_nolower(path) ==
    LET e0 == PathSuffix(path)
        ext == IF e0 = EXT_PQ THEN EXT_PARQUET ELSE e0
    IN IF ext \notin SUPPORTED_EXTS
       THEN [ok |-> FALSE, fmt |-> <<>>, err |-> UnsupportedExt(ext)]
       ELSE [ok |-> TRUE, fmt |-> LStripDot(ext), err |-> NoErr]

infer_format_nocheck(path) ==
    LET e0 == Lower(PathSuffix(path))
        ext == IF e0 = EXT_PQ THEN EXT_PARQUET ELSE e0
    IN [ok |-> TRUE, fmt |-> LStripDot(ext), err |-> NoErr]

_infer_format(path) ==
    LET e0 == Lower(PathSuffix(path))
        ext == IF e0 \in {EXT_PQ} THEN EXT_PARQUET ELSE e0
    IN IF ext \notin SUPPORTED_EXTS
       THEN [ok |-> FALSE, fmt |-> <<>>, err |-> UnsupportedExt(ext)]
       ELSE [ok |-> TRUE, fmt |-> LStripDot(ext), err |-> NoErr]

(***************************************************************************)
(* Python dicts (insertion-ordered) as sequences of <<key, value>> pairs   *)
(***************************************************************************)
DictKeys(d) == {d[i][1] : i \in 1..Len(d)}
DictHas(d, k) == k \in DictKeys(d)
DictGet(d, k) == d[CHOOSE i \in 1..Len(d) : d[i][1] = k][2]

\* d[k] = v: an existing key keeps its position, a new key goes last
DictSet(d, k, v) ==
    IF DictHas(d, k)
    THEN [i \in 1..Len(d) |-> IF d[i][1] = k THEN <<k, v>> ELSE d[i]]
    ELSE Append(d, <<k, v>>)

\* del d[k]
RECURSIVE DictDel(_, _)
DictDel(d, k) ==
    IF d = <<>> THEN <<>>
    ELSE IF Head(d)[1] = k THEN Tail(d)
    ELSE <<Head(d)>> \o DictDel(Tail(d), k)

\* the mapping a dict stands for, order forgotten
AsMap(d) == [k \in DictKeys(d) |-> DictGet(d, k)]

MapPut(m, k, v) == [x \in DOMAIN m \cup {k} |-> IF x = k THEN v ELSE m[x]]
MapDel(m, k) == [x \in DOMAIN m \ {k} |-> m[x]]
EmptyMap == [x \in {} |-> x]

\* sorted(d.items()) / json.dump(..., sort_keys=True): ascending by key
RECURSIVE InsertSorted(_, _)
InsertSorted(pair, d) ==
    IF d = <<>> THEN <<pair>>
    ELSE IF StrLess(pair[1], Head(d)[1]) THEN <<pair>> \o d
    ELSE <<Head(d)>> \o InsertSorted(pair, Tail(d))

RECURSIVE SortByKey(_)
SortByKey(d) ==
    IF d = <<>> THEN <<>> ELSE InsertSorted(Head(d), SortByKey(Tail(d)))

(***************************************************************************)
(* Catalog store                                                           *)
(***************************************************************************)
NoDoc == [exists |-> FALSE, members |-> <<>>]

\* json.load of the document, {} when the file does not exist
_load_catalog(d) == IF ~d.exists THEN <<>> ELSE d.members

\* a plausible slip: the new object is merged into the document instead of
\* replacing it, so keys the catalog no longer holds stay on disk
save_catalog_merge(d, catalog) ==
    [exists |-> TRUE,
     members |-> SortByKey(catalog \o SelectSeq(_load_catalog(d),
                                   LAMBDA m : ~DictHas(catalog, m[1])))]

\* json.dump(catalog, f, indent=2, sort_keys=True) over a truncated file;
\* d is the document being overwritten
_save_catalog(d, catalog) == [exists |-> TRUE, members |-> SortByKey(catalog)]

(***************************************************************************)
(* The local disk the catalog points at                                    *)
(***************************************************************************)
Cwd == <<"/","w","/">>

P_t_csv == <<"t",".","c","s","v">>
P_u_PQ == <<"u",".","P","Q">>
P_s_db == <<"s",".","d","b">>
P_e_sqlite == <<"e",".","s","q","l","i","t","e">>
P_n_txt == <<"n",".","t","x","t">>
P_x_csv == <<"x",".","c","s","v">>

\* pathlib.Path(path).expanduser().resolve() for paths without ~, .. or links
Resolve(path) == IF path # <<>> /\ Head(path) = "/" THEN path ELSE Cwd \o path

\* the files that exist (x.csv does not)
FILES == {Resolve(p) : p \in {P_t_csv, P_u_PQ, P_s_db, P_e_sqlite, P_n_txt}}

PathInputs == {P_t_csv, P_u_PQ, P_s_db, P_e_sqlite, P_n_txt, P_x_csv}

N_ab == <<"a","b">>
N_b == <<"b">>
Names == {N_ab, N_b}

NoDf == [columns |-> <<>>, rows |-> <<>>]

\* pd.read_csv / pd.read_parquet of a flat file
ReadFlat(path) ==
    IF path = Resolve(P_t_csv)
    THEN [columns |-> <<"a", "b">>, rows |-> << <<1, 2>>, <<3, 4>> >>]
    ELSE [columns |-> <<"k">>, rows |-> << <<7>>, <<8>>, <<9>> >>]

T_k == <<"k">>
T_m == <<"m">>
T_z == <<"z">>

\* the tables inside a SQLite file
SqliteTables(path) ==
    IF path = Resolve(P_s_db)
    THEN [t \in {T_k, T_m} |->
            IF t = T_k THEN [columns |-> <<"x">>, rows |-> << <<5>>, <<6>> >>]
            ELSE [columns |-> <<"y">>, rows |-> << <<0>> >>]]
    ELSE EmptyMap

Min(a, b) == IF a < b THEN a ELSE b
Max(a, b) == IF a < b THEN b ELSE a

\* DataFrame.head(n)
DfHead(df, n) ==
    [df EXCEPT !.rows =
        IF n >= 0 THEN SubSeq(df.rows, 1, Min(n, Len(df.rows)))
        ELSE SubSeq(df.rows, 1, Max(Len(df.rows) + n, 0))]

\* truthiness of an Optional[int]
Truthy(limit) == limit # None /\ limit[1] # 0

Limits == {None} \cup {Some(k) : k \in 0..MaxLimit}
TableArgs == {None, Some(T_m), Some(T_z)}

FlatFormats == {csv, parquet}

(***************************************************************************)
(* Operations of one process, each a whole call                            *)
(***************************************************************************)
otherVars == <<procs, lastSaved, fpath, fres, qname, qout, qstmt>>
sqlVars == <<pc, con, sessions, opened, frame>>

Result(op, name, arg, err, val, pre) ==
    [op |-> op, name |-> name, arg |-> arg, ok |-> (err.kind = "none"),
     err |-> err, val |-> val, pre |-> pre]

NoResult == Result("none", <<>>, None, NoErr, NoDf, NoDoc)

CanStart == pc = "idle"

\* the entry add_dataset stores for a file
add_dataset_entry(path, fmt) == [path |-> Resolve(path), format |-> fmt]

add_dataset(name, path) ==
    LET p == Resolve(path)
        fmt == _infer_format(p)
        entry == add_dataset_entry(path, fmt.fmt)
        catalog == DictSet(_load_catalog(doc), name, entry)
    IN /\ CanStart
       /\ IF p \notin FILES
          THEN /\ ret' = Result("add", name, Some(path), ErrKind("FileNotFoundError"), NoDf, doc)
               /\ UNCHANGED <<doc, catdir, model, removed>>
          ELSE IF ~fmt.ok
          THEN /\ ret' = Result("add", name, Some(path), fmt.err, NoDf, doc)
               /\ UNCHANGED <<doc, catdir, model, removed>>
          ELSE /\ catdir' = TRUE
               /\ doc' = _save_catalog(doc, catalog)
               /\ model' = MapPut(model, name, entry)
               /\ removed' = removed \ {name}
               /\ ret' = Result("add", name, Some(path), NoErr, NoDf, doc)
       /\ UNCHANGED <<sqlVars, otherVars>>

list_datasets ==
    /\ CanStart
    /\ catdir' = TRUE
    /\ ret' = Result("list", <<>>, None, NoErr,
                     [columns |-> <<"name", "path", "format">>,
                      rows |-> [i \in 1..Len(_load_catalog(doc)) |->
                                  LET m == SortByKey(_load_catalog(doc))[i]
                                  IN <<m[1], m[2].path, m[2].format>>]],
                     doc)
    /\ UNCHANGED <<doc, model, removed, sqlVars, otherVars>>

\* a plausible slip: the key is deleted in memory and never written back
remove_dataset_nosave(name) ==
    LET catalog == _load_catalog(doc)
    IN /\ CanStart
       /\ catdir' = TRUE
       /\ IF DictHas(catalog, name)
          THEN /\ UNCHANGED doc
               /\ model' = MapDel(model, name)
               /\ removed' = removed \cup {name}
               /\ ret' = Result("remove", name, None, NoErr, NoDf, doc)
          ELSE /\ ret' = Result("remove", name, None, ErrKind("KeyError"), NoDf, doc)
               /\ UNCHANGED <<doc, model, removed>>
       /\ UNCHANGED <<sqlVars, otherVars>>

remove_dataset(name) ==
    LET catalog == _load_catalog(doc)
    IN /\ CanStart
       /\ catdir' = TRUE
       /\ IF DictHas(catalog, name)
          THEN /\ doc' = _save_catalog(doc, DictDel(catalog, name))
               /\ model' = MapDel(model, name)
               /\ removed' = removed \cup {name}
               /\ ret' = Result("remove", name, None, NoErr, NoDf, doc)
          ELSE /\ ret' = Result("remove", name, None, ErrKind("KeyError"), NoDf, doc)
               /\ UNCHANGED <<doc, model, removed>>
       /\ UNCHANGED <<sqlVars, otherVars>>

\* the first table name of a SQLite file in ORDER BY name order
FirstTable(tables) ==
    CHOOSE t \in DOMAIN tables : \A u \in DOMAIN tables : u = t \/ StrLess(t, u)

\* SELECT * FROM {table} [LIMIT {limit}] on a sqlite3 connection
ReadSql(tables, table, limit) ==
    IF table \notin DOMAIN tables
    THEN [err |-> ErrKind("DatabaseError"), val |-> NoDf]
    ELSE [err |-> NoErr,
          val |-> IF Truthy(limit) THEN DfHead(tables[table], limit[1]) ELSE tables[table]]

\* the value or error of load_df for a catalog as loaded
load_df_result(catalog, name, table, limit) ==
    IF ~DictHas(catalog, name)
    THEN [err |-> ErrKind("KeyError"), val |-> NoDf]
    ELSE LET entry == DictGet(catalog, name)
             fmt == entry.format
             path == entry.path
         IN IF fmt = csv \/ fmt = parquet
            THEN [err |-> NoErr,
                  val |-> IF Truthy(limit) THEN DfHead(ReadFlat(path), limit[1])
                          ELSE ReadFlat(path)]
            ELSE IF fmt \in {sqlite, db}
            THEN LET tables == SqliteTables(path)
                 IN IF table = None
                    THEN IF DOMAIN tables = {}
                         THEN [err |-> ErrKind("NoTables"), val |-> NoDf]
                         ELSE ReadSql(tables, FirstTable(tables), limit)
                    ELSE ReadSql(tables, table[1], limit)
            ELSE [err |-> ErrKind("UnsupportedFormat"), val |-> NoDf]

load_df(name, table, limit) ==
    LET r == load_df_result(_load_catalog(doc), name, table, limit)
    IN /\ CanStart
       /\ catdir' = TRUE
       /\ ret' = Result("load_df", name, <<table, limit>>, r.err, r.val, doc)
       /\ UNCHANGED <<doc, model, removed, sqlVars, otherVars>>

(***************************************************************************)
(* The embedded engine, as far as run_sql drives it                        *)
(***************************************************************************)
QUOTE == "\""
CREATE_VIEW == "CREATE VIEW "
AS_READ_CSV == " AS SELECT * FROM read_csv_auto('"
AS_READ_PARQUET == " AS SELECT * FROM read_parquet('"
END_CALL == "')"
ATTACH == "ATTACH '"
QUOTE_AS == "' AS "
TYPE_SQLITE == " (TYPE SQLITE)"
SELECT_COUNT_FROM == "SELECT COUNT(*) AS n FROM"

\* the lexer on a double-quoted identifier starting at s[1]: a doubled quote
\* stands for one quote, a single quote ends the identifier
RECURSIVE ScanQuoted(_, _, _)
ScanQuoted(s, i, acc) ==
    IF i > Len(s) THEN [closed |-> FALSE, name |-> acc, end |-> Len(s)]
    ELSE IF s[i] = QUOTE
    THEN IF i + 1 <= Len(s) /\ s[i + 1] = QUOTE
         THEN ScanQuoted(s, i + 2, Append(acc, QUOTE))
         ELSE [closed |-> TRUE, name |-> acc, end |-> i]
    ELSE ScanQuoted(s, i + 1, Append(acc, s[i]))

LexIdent(s) ==
    IF s = <<>> \/ s[1] # QUOTE
    THEN [closed |-> FALSE, name |-> <<>>, end |-> 0]
    ELSE ScanQuoted(s, 2, <<>>)

NoCon == [id |-> 0, views |-> EmptyMap, attached |-> {}]

\* the statements the binder generates
CreateViewStmt(view_name, reader, path) ==
    <<CREATE_VIEW>> \o _quote_ident(view_name) \o <<reader>> \o path \o <<END_CALL>>

AttachStmt(path, schema) ==
    <<ATTACH>> \o path \o <<QUOTE_AS>> \o _quote_ident(schema) \o <<TYPE_SQLITE>>

\* con.execute of a CREATE VIEW statement: the view must not exist yet
EngineCreateView(c, stmt) ==
    LET id == LexIdent(Tail(stmt))
        rest == SubSeq(stmt, id.end + 2, Len(stmt))
    IN IF ~id.closed \/ Len(rest) < 2
          \/ rest[1] \notin {AS_READ_CSV, AS_READ_PARQUET} \/ rest[Len(rest)] # END_CALL
       THEN [con |-> c, err |-> ErrKind("ParserException")]
       ELSE IF id.name \in DOMAIN c.views
       THEN [con |-> c, err |-> ErrKind("ViewExists")]
       ELSE [con |-> [c EXCEPT !.views = MapPut(c.views, id.name,
                                                SubSeq(rest, 2, Len(rest) - 1))],
             err |-> NoErr]

\* con.execute of an ATTACH statement: the alias must not be attached yet
EngineAttach(c, stmt) ==
    LET i == CHOOSE k \in 1..Len(stmt) : stmt[k] = QUOTE_AS
        id == LexIdent(SubSeq(stmt, i + 1, Len(stmt)))
    IN IF ~id.closed \/ i + id.end + 1 # Len(stmt)
       THEN [con |-> c, err |-> ErrKind("ParserException")]
       ELSE IF id.name \in c.attached
       THEN [con |-> c, err |-> ErrKind("AliasExists")]
       ELSE [con |-> [c EXCEPT !.attached = c.attached \cup {id.name}], err |-> NoErr]

\* con.execute(sql).df() for the caller's text: the outcomes the engine can
\* give.  For text without a statement the engine either raises or hands back
\* nothing to fetch; both are kept.
EngineQuery(c, sql) ==
    LET s == Strip(sql)
    IN IF s = <<>>
       THEN {[err |-> ErrKind("EngineError"), val |-> NoDf], [err |-> NoErr, val |-> NoDf]}
       ELSE IF Head(s) # SELECT_COUNT_FROM
       THEN {[err |-> ErrKind("ParserException"), val |-> NoDf]}
       ELSE IF Strip(Tail(s)) \notin DOMAIN c.views
       THEN {[err |-> ErrKind("UnknownRelation"), val |-> NoDf]}
       ELSE {[err |-> NoErr,
              val |-> [columns |-> <<"n">>,
                       rows |-> << <<Len(ReadFlat(c.views[Strip(Tail(s))]).rows)>> >>]]}

(***************************************************************************)
(* run_sql, statement by statement                                         *)
(***************************************************************************)
Aliases == Names \cup {<<>>}
RegisterMaps == {EmptyMap} \cup {[n \in {k} |-> a] : k \in Names, a \in Aliases}
Registers == {None} \cup {Some(m) : m \in RegisterMaps}

Query(rel) == <<SELECT_COUNT_FROM, " ">> \o rel
SqlInputs == {<<>>, <<" ", " ">>} \cup {Query(n) : n \in Names}
ArgvInputs == {<<>>, << <<" ">>, <<>> >>} \cup {<< <<SELECT_COUNT_FROM>>, n >> : n \in Names}

\* line 123-125: the relation name an entry is bound under
ViewName(ds_name, register) ==
    IF register # None /\ register[1] # EmptyMap
       /\ ds_name \in DOMAIN register[1] /\ register[1][ds_name] # <<>>
    THEN register[1][ds_name]
    ELSE ds_name

\* one iteration of the binding loop
BindEntry(c, ds_name, meta, register) ==
    LET view_name == ViewName(ds_name, register)
    IN IF meta.format = csv
       THEN EngineCreateView(c, CreateViewStmt(view_name, AS_READ_CSV, meta.path))
       ELSE IF meta.format = parquet
       THEN EngineCreateView(c, CreateViewStmt(view_name, AS_READ_PARQUET, meta.path))
       ELSE IF meta.format \in {sqlite, db}
       THEN EngineAttach(c, AttachStmt(meta.path, <<"s", "_">> \o ds_name))
       ELSE [con |-> c, err |-> ErrKind("UnsupportedFormat")]

\* what one iteration can do to the session: the statement as the engine
\* runs it, or the engine failing to read the entry's file, which is not
\* checked again after registration
BindOutcomes(c, ds_name, meta, register) ==
    {BindEntry(c, ds_name, meta, register)}
    \cup (IF meta.format \in {csv, parquet, sqlite, db}
          THEN {[con |-> c, err |-> ErrKind("IOException")]}
          ELSE {})

NoFrame == [sql |-> <<>>, register |-> None, catalog |-> <<>>, idx |-> 0,
            err |-> NoErr, val |-> NoDf, stage |-> "none"]

\* line 118: con = duckdb.connect(database=":memory:"), a new database each time
EnterRunSql(sql, register) ==
    /\ opened < MaxSessions
    /\ opened' = opened + 1
    /\ con' = [id |-> opened + 1, views |-> EmptyMap, attached |-> {}]
    /\ sessions' = sessions \cup {opened + 1}
    /\ frame' = [NoFrame EXCEPT !.sql = sql, !.register = register, !.stage = "connect"]
    /\ pc' = "load"

run_sql(sql, register) ==
    /\ CanStart
    /\ EnterRunSql(sql, register)
    /\ UNCHANGED <<doc, catdir, model, removed, ret, otherVars>>

\* cli.sql_cmd: the words are joined and stripped, a blank query exits with 2
sql_cmd(query) ==
    LET sql == Strip(JoinSpace(query))
    IN /\ CanStart
       /\ IF sql = <<>>
          THEN /\ ret' = Result("sql_cmd", <<>>, Some(query), ErrKind("SystemExit2"), NoDf, doc)
               /\ UNCHANGED sqlVars
          ELSE /\ EnterRunSql(sql, None)
               /\ UNCHANGED ret
       /\ UNCHANGED <<doc, catdir, model, removed, otherVars>>

\* line 120
run_sql_load ==
    /\ pc = "load"
    /\ catdir' = TRUE
    /\ frame' = [frame EXCEPT !.catalog = _load_catalog(doc), !.idx = 1, !.stage = "bind"]
    /\ pc' = "bind"
    /\ UNCHANGED <<doc, model, removed, ret, con, sessions, opened, otherVars>>

\* lines 122-136, one entry
run_sql_bind ==
    /\ pc = "bind"
    /\ frame.idx <= Len(frame.catalog)
    /\ LET item == frame.catalog[frame.idx]
       IN \E r \in BindOutcomes(con, item[1], item[2], frame.register) :
             /\ con' = r.con
             /\ IF r.err.kind = "none"
                THEN /\ frame' = [frame EXCEPT !.idx = frame.idx + 1]
                     /\ pc' = "bind"
                ELSE /\ frame' = [frame EXCEPT !.err = r.err]
                     /\ pc' = "finally"
    /\ UNCHANGED <<doc, catdir, model, removed, ret, sessions, opened, otherVars>>

\* line 138
run_sql_exec ==
    /\ pc = "bind"
    /\ frame.idx > Len(frame.catalog)
    /\ \E r \in EngineQuery(con, frame.sql) :
          frame' = [frame EXCEPT !.err = r.err, !.val = r.val, !.stage = "exec"]
    /\ pc' = "finally"
    /\ UNCHANGED <<doc, catdir, model, removed, ret, con, sessions, opened, otherVars>>

\* a plausible slip: con.close() after the query instead of in a finally block
run_sql_finally_leak ==
    /\ pc = "finally"
    /\ sessions' = IF frame.err.kind = "none" THEN sessions \ {con.id} ELSE sessions
    /\ ret' = Result("run_sql", <<>>, Some(frame.sql), frame.err, frame.val, doc)
    /\ pc' = "idle"
    /\ con' = NoCon
    /\ frame' = [NoFrame EXCEPT !.stage = frame.stage]
    /\ UNCHANGED <<doc, catdir, model, removed, opened, otherVars>>

\* lines 139-140: con.close(), then the value is returned or the error raised
run_sql_finally ==
    /\ pc = "finally"
    /\ sessions' = sessions \ {con.id}
    /\ ret' = Result("run_sql", <<>>, Some(frame.sql), frame.err, frame.val, doc)
    /\ pc' = "idle"
    /\ con' = NoCon
    /\ frame' = [NoFrame EXCEPT !.stage = frame.stage]
    /\ UNCHANGED <<doc, catdir, model, removed, opened, otherVars>>

MainIdle ==
    /\ model = EmptyMap
    /\ removed = {}
    /\ ret = NoResult
    /\ pc = "idle"
    /\ con = NoCon
    /\ sessions = {}
    /\ opened = 0
    /\ frame = NoFrame

RaceIdle == procs = <<>> /\ lastSaved = None

Pending == [ok |-> FALSE, fmt |-> <<>>, err |-> ErrKind("pending")]
FormatIdle == fpath = <<>> /\ fres = Pending

QuoteIdle == qname = <<>> /\ qout = <<>> /\ qstmt = <<>>

\* no catalog document yet, nothing running
Init ==
    /\ doc = NoDoc
    /\ catdir = FALSE
    /\ MainIdle
    /\ RaceIdle
    /\ FormatIdle
    /\ QuoteIdle

Next ==
    \/ \E name \in Names, path \in PathInputs : add_dataset(name, path)
    \/ \E name \in Names : remove_dataset(name)
    \/ list_datasets
    \/ \E name \in Names, table \in TableArgs, limit \in Limits : load_df(name, table, limit)
    \/ \E sql \in SqlInputs, register \in Registers : run_sql(sql, register)
    \/ \E query \in ArgvInputs : sql_cmd(query)
    \/ run_sql_load
    \/ run_sql_bind
    \/ run_sql_exec
    \/ run_sql_finally

Spec == Init /\ [][Next]_vars

(***************************************************************************)
(* The format resolver on its own                                          *)
(***************************************************************************)
mainVars == <<doc, catdir, model, removed, ret, pc, con, sessions, opened, frame>>

Stems == StringsUpTo({"a", "."}, MaxStem)
Dirs == {<<>>, <<"d", ".", "c", "s", "v", "/">>}
ExtInputs ==
    {<<>>, <<".">>, EXT_CSV, <<".","C","S","V">>, <<".","C","s","v">>,
     EXT_PARQUET, <<".","P","a","r","q","u","e","t">>, EXT_PQ, <<".","P","Q">>,
     EXT_SQLITE, <<".","S","Q","L","i","t","e">>, EXT_DB, <<".","D","B">>,
     <<".","t","x","t">>, <<".","c","s">>, <<".","c","s","v","x">>, <<".","d">>}

\* file paths: the name is not empty and is neither "." nor ".."
FormatInputs ==
    {dir \o stem \o ext : dir \in Dirs,
        stem \in {st \in Stems : \E e \in ExtInputs : st \o e \notin {<<>>, <<".">>, <<".", ".">>}},
        ext \in ExtInputs}
    \ {dir \o n : dir \in Dirs, n \in {<<>>, <<".">>, <<".", ".">>}}

InitFormat ==
    /\ doc = NoDoc
    /\ catdir = FALSE
    /\ MainIdle
    /\ RaceIdle
    /\ QuoteIdle
    /\ fpath \in FormatInputs
    /\ fres = Pending

resolve ==
    /\ fres = Pending
    /\ fres' = _infer_format(fpath)
    /\ UNCHANGED <<mainVars, procs, lastSaved, fpath, qname, qout, qstmt>>

NextFormat == resolve

SpecFormat == InitFormat /\ [][NextFormat]_vars

(***************************************************************************)
(* Identifier quoting on its own                                           *)
(***************************************************************************)
QuoteInputs == StringsUpTo({"a", QUOTE, " "}, MaxNameLen)

InitQuote ==
    /\ doc = NoDoc
    /\ catdir = FALSE
    /\ MainIdle
    /\ RaceIdle
    /\ FormatIdle
    /\ qname \in QuoteInputs
    /\ qout = <<>>
    /\ qstmt = <<>>

quote ==
    /\ qout = <<>>
    /\ qout' = _quote_ident(qname)
    /\ UNCHANGED <<mainVars, procs, lastSaved, fpath, fres, qname, qstmt>>

\* line 129: the name interpolated as a relation name
bind_view ==
    /\ qout # <<>>
    /\ qstmt = <<>>
    /\ qstmt' = CreateViewStmt(qname, AS_READ_CSV, Resolve(P_t_csv))
    /\ UNCHANGED <<mainVars, procs, lastSaved, fpath, fres, qname, qout>>

\* lines 133-134: the name interpolated into a schema name
bind_attach ==
    /\ qout # <<>>
    /\ qstmt = <<>>
    /\ qstmt' = AttachStmt(Resolve(P_s_db), <<"s", "_">> \o qname)
    /\ UNCHANGED <<mainVars, procs, lastSaved, fpath, fres, qname, qout>>

NextQuote == quote \/ bind_view \/ bind_attach

SpecQuote == InitQuote /\ [][NextQuote]_vars

(***************************************************************************)
(* C3: format resolution                                                   *)
(***************************************************************************)
\* the path ends, in any letter case, with the extension e, and e is preceded
\* by at least one character of the file name
EndsWithExt(path, e) ==
    /\ Len(path) > Len(e)
    /\ Lower(SubSeq(path, Len(path) - Len(e) + 1, Len(path))) = e
    /\ path[Len(path) - Len(e)] # "/"

MatchedExts(path) == {e \in SUPPORTED_EXTS : EndsWithExt(path, e)}

TagOfExt(e) ==
    CASE e = EXT_CSV -> csv
      [] e = EXT_PARQUET -> parquet
      [] e = EXT_PQ -> parquet
      [] e = EXT_SQLITE -> sqlite
      [] e = EXT_DB -> db

RejectsWithMessage ==
    /\ ~fres.ok
    /\ fres.err.kind = "UnsupportedExt"
    /\ fres.err.ext = Lower(PathSuffix(fpath))
    /\ fres.err.supported = {EXT_CSV, EXT_PARQUET, EXT_PQ, EXT_SQLITE, EXT_DB}

\* C3 (as amended): a path whose extension is, in any letter case, one of .csv,
\* .parquet, .pq, .sqlite, .db resolves to exactly one tag: csv, parquet,
\* parquet, sqlite and db respectively (.db keeps its own tag db); every other
\* path, a path without extension included, is rejected with an error that
\* names the extension and the supported set.
C3_FormatResolution ==
    fres # Pending =>
        IF MatchedExts(fpath) # {}
        THEN fres.ok /\ \A e \in MatchedExts(fpath) : fres.fmt = TagOfExt(e)
        ELSE RejectsWithMessage

\* an upper-case .PQ file inside a dotted directory has been resolved to parquet
C3_Witness ==
    /\ fres # Pending
    /\ fres.ok
    /\ fres.fmt = parquet
    /\ fpath = <<"d", ".", "c", "s", "v", "/", "a", ".", "P", "Q">>

\* C3 as stated: every supported extension resolves into {csv, parquet, sqlite},
\* .db to the sqlite tag
C3_Original ==
    fres # Pending =>
        IF MatchedExts(fpath) # {}
        THEN /\ fres.ok
             /\ fres.fmt \in {csv, parquet, sqlite}
             /\ (EXT_DB \in MatchedExts(fpath) => fres.fmt = sqlite)
        ELSE RejectsWithMessage

(***************************************************************************)
(* C8: identifier quoting                                                  *)
(***************************************************************************)
\* the interior of a quoted identifier read back: every quote must be followed
\* by a second one, and the pair stands for one quote
RECURSIVE CollapsePairs(_)
CollapsePairs(s) ==
    IF s = <<>> THEN [ok |-> TRUE, out |-> <<>>]
    ELSE IF Head(s) = QUOTE
    THEN IF Len(s) >= 2 /\ s[2] = QUOTE
         THEN LET r == CollapsePairs(SubSeq(s, 3, Len(s)))
              IN [ok |-> r.ok, out |-> <<QUOTE>> \o r.out]
         ELSE [ok |-> FALSE, out |-> <<>>]
    ELSE LET r == CollapsePairs(Tail(s))
         IN [ok |-> r.ok, out |-> <<Head(s)>> \o r.out]

Interior(q) == SubSeq(q, 2, Len(q) - 1)

QuotedWell ==
    /\ Len(qout) >= 2
    /\ qout[1] = QUOTE
    /\ qout[Len(qout)] = QUOTE
    /\ CollapsePairs(Interior(qout)).ok
    /\ CollapsePairs(Interior(qout)).out = qname
    /\ \A other \in QuoteInputs : _quote_ident(other) = qout => other = qname

\* in the generated statement the identifier read by the lexer is the whole
\* quoted name and nothing of the name leaks into the rest of the statement
StatementIntact ==
    IF qstmt[1] = CREATE_VIEW
    THEN LET id == LexIdent(Tail(qstmt))
         IN /\ id.closed
            /\ id.name = qname
            /\ SubSeq(qstmt, id.end + 2, Len(qstmt))
                 = <<AS_READ_CSV>> \o Resolve(P_t_csv) \o <<END_CALL>>
    ELSE LET i == CHOOSE k \in 1..Len(qstmt) : qstmt[k] = QUOTE_AS
             id == LexIdent(SubSeq(qstmt, i + 1, Len(qstmt)))
         IN /\ id.closed
            /\ id.name = <<"s", "_">> \o qname
            /\ SubSeq(qstmt, i + id.end + 1, Len(qstmt)) = <<TYPE_SQLITE>>

\* C8: _quote_ident(name) starts and ends with a double quote, its interior
\* holds double quotes only in adjacent pairs, collapsing the pairs gives back
\* name, no other name has the same quoting, and in the CREATE VIEW and ATTACH
\* statements the binder generates the quoted identifier ends exactly where
\* the name ends.
C8_QuoteRoundTrip ==
    /\ (qout # <<>> => QuotedWell)
    /\ (qstmt # <<>> => StatementIntact)

\* a name with a quote and a space has been quoted and interpolated
C8_Witness ==
    /\ qname = <<QUOTE, " ", "a", QUOTE>>
    /\ qout = <<QUOTE, QUOTE, QUOTE, " ", "a", QUOTE, QUOTE, QUOTE>>
    /\ qstmt # <<>>
    /\ qstmt[1] = CREATE_VIEW

(***************************************************************************)
(* Two processes on one catalog document; a process's load and its save    *)
(* are separate steps (engine.py lines 52-54 and 64-67)                    *)
(***************************************************************************)
Procs == {1, 2}
RacePaths == {P_t_csv, P_s_db, P_n_txt}

NoEntry == [path |-> <<>>, format |-> <<>>]
IdleProc == [pc |-> "idle", op |-> "none", name |-> <<>>, entry |-> NoEntry,
             catalog |-> <<>>, err |-> NoErr, done |-> 0]

InitRace ==
    /\ doc = NoDoc
    /\ catdir = FALSE
    /\ MainIdle
    /\ FormatIdle
    /\ QuoteIdle
    /\ procs = [p \in Procs |-> IdleProc]
    /\ lastSaved = None

raceRest == <<model, removed, ret, pc, con, sessions, opened, frame,
              fpath, fres, qname, qout, qstmt>>

\* add_dataset, lines 48-51: the checks made before the catalog is read
race_add_begin(p, name, path) ==
    LET fmt == _infer_format(Resolve(path))
    IN /\ procs[p].pc = "idle"
       /\ procs[p].done < MaxRaceOps
       /\ IF Resolve(path) \notin FILES \/ ~fmt.ok
          THEN procs' = [procs EXCEPT ![p] =
                  [IdleProc EXCEPT !.op = "add", !.name = name,
                                   !.err = IF Resolve(path) \notin FILES
                                           THEN ErrKind("FileNotFoundError") ELSE fmt.err,
                                   !.done = procs[p].done + 1]]
          ELSE procs' = [procs EXCEPT ![p] =
                  [IdleProc EXCEPT !.pc = "load", !.op = "add", !.name = name,
                                   !.entry = add_dataset_entry(path, fmt.fmt),
                                   !.done = procs[p].done]]
       /\ UNCHANGED <<doc, catdir, lastSaved, raceRest>>

\* add_dataset, lines 52-53: catalog = _load_catalog(); catalog[name] = ...
race_add_load(p) ==
    /\ procs[p].pc = "load"
    /\ procs[p].op = "add"
    /\ catdir' = TRUE
    /\ procs' = [procs EXCEPT ![p].pc = "save",
                              ![p].catalog = DictSet(_load_catalog(doc), procs[p].name,
                                                     procs[p].entry)]
    /\ UNCHANGED <<doc, lastSaved, raceRest>>

race_remove_begin(p, name) ==
    /\ procs[p].pc = "idle"
    /\ procs[p].done < MaxRaceOps
    /\ procs' = [procs EXCEPT ![p] =
            [IdleProc EXCEPT !.pc = "load", !.op = "remove", !.name = name,
                             !.done = procs[p].done]]
    /\ UNCHANGED <<doc, catdir, lastSaved, raceRest>>

\* remove_dataset, lines 64-66 and 68-69
race_remove_load(p) ==
    LET catalog == _load_catalog(doc)
    IN /\ procs[p].pc = "load"
       /\ procs[p].op = "remove"
       /\ catdir' = TRUE
       /\ IF DictHas(catalog, procs[p].name)
          THEN procs' = [procs EXCEPT ![p].pc = "save",
                                      ![p].catalog = DictDel(catalog, procs[p].name)]
          ELSE procs' = [procs EXCEPT ![p].pc = "idle",
                                      ![p].err = ErrKind("KeyError"),
                                      ![p].done = procs[p].done + 1]
       /\ UNCHANGED <<doc, lastSaved, raceRest>>

\* lines 54 and 67: _save_catalog(catalog)
race_save(p) ==
    /\ procs[p].pc = "save"
    /\ doc' = _save_catalog(doc, procs[p].catalog)
    /\ lastSaved' = Some(procs[p].catalog)
    /\ procs' = [procs EXCEPT ![p].pc = "idle", ![p].done = procs[p].done + 1]
    /\ UNCHANGED <<catdir, raceRest>>

NextRace ==
    \/ \E p \in Procs, name \in Names, path \in RacePaths : race_add_begin(p, name, path)
    \/ \E p \in Procs : race_add_load(p)
    \/ \E p \in Procs, name \in Names : race_remove_begin(p, name)
    \/ \E p \in Procs : race_remove_load(p)
    \/ \E p \in Procs : race_save(p)

SpecRace == InitRace /\ [][NextRace]_vars

(***************************************************************************)
(* C6: lost updates                                                        *)
(***************************************************************************)
\* C6: with load and save as separate steps and no locking, the document is at
\* every moment exactly the mapping handed to the last save (and is missing
\* until the first save); two operations can both complete without error and
\* the document lack the effect of one of them (C6_LostUpdate is that state).
C6_LastWriterWins ==
    /\ (lastSaved = None <=> ~doc.exists)
    /\ (lastSaved # None =>
          /\ DictKeys(_load_catalog(doc)) = DictKeys(lastSaved[1])
          /\ AsMap(_load_catalog(doc)) = AsMap(lastSaved[1]))

\* both processes have completed one add each, of different names and without
\* error, and the document holds only one of the two names
C6_LostUpdate ==
    /\ procs # <<>>
    /\ \A p \in Procs : /\ procs[p].pc = "idle"
                        /\ procs[p].done = 1
                        /\ procs[p].op = "add"
                        /\ procs[p].err = NoErr
    /\ procs[1].name # procs[2].name
    /\ Cardinality(DictKeys(_load_catalog(doc))) = 1

(***************************************************************************)
(* C1, C2, C10: the catalog under add_dataset / remove_dataset             *)
(***************************************************************************)
Stored == AsMap(_load_catalog(doc))
StoredBefore == AsMap(_load_catalog(ret.pre))

\* C1: after any sequence of add_dataset and remove_dataset calls from a
\* missing document, _load_catalog() returns exactly the map obtained by
\* applying the successful calls in order to the empty map (same keys, and
\* per key the path and format of the last successful add), and {} while no
\* document exists.
C1_RoundTrip ==
    /\ DictKeys(_load_catalog(doc)) = DOMAIN model
    /\ \A k \in DOMAIN model : DictGet(_load_catalog(doc), k) = model[k]
    /\ (~doc.exists => _load_catalog(doc) = <<>> /\ model = EmptyMap)
    /\ Len(_load_catalog(doc)) = Cardinality(DOMAIN model)

\* a name has just been re-added with another file while the other name stays
C1_Witness ==
    /\ ret.op = "add"
    /\ ret.ok
    /\ ret.name \in DOMAIN StoredBefore
    /\ StoredBefore[ret.name] # Stored[ret.name]
    /\ DOMAIN Stored = Names
    /\ \A k \in Names \ {ret.name} : Stored[k] = StoredBefore[k]

\* C2: remove_dataset(name) raises KeyError exactly when name is absent, and
\* then leaves the document as it was; when name is present it deletes that
\* key and no other; load_df of a removed name raises KeyError until the name
\* is added again.
C2_Remove ==
    /\ ret.op = "remove" =>
          /\ (ret.ok <=> ret.name \in DOMAIN StoredBefore)
          /\ (~ret.ok => ret.err.kind = "KeyError" /\ doc = ret.pre)
          /\ (ret.ok => /\ doc.exists
                        /\ DOMAIN Stored = DOMAIN StoredBefore \ {ret.name}
                        /\ \A k \in DOMAIN Stored : Stored[k] = StoredBefore[k])
    /\ \A n \in removed : n \notin DOMAIN Stored
    /\ (ret.op = "load_df" /\ ret.name \in removed => ret.err.kind = "KeyError")

\* load_df has just failed on a removed name while the other name is still there
C2_Witness ==
    /\ ret.op = "load_df"
    /\ ret.name \in removed
    /\ ret.err.kind = "KeyError"
    /\ DOMAIN Stored = Names \ {ret.name}

DispatchTags == {csv, parquet, sqlite, db}

\* C10: every entry of a catalog written by add_dataset / remove_dataset has a
\* format load_df and run_sql dispatch on (csv, parquet, sqlite, db), and
\* neither of them reaches its "Unsupported format" branch.
C10_FormatsDispatchable ==
    /\ \A i \in 1..Len(doc.members) : doc.members[i][2].format \in DispatchTags
    /\ ret.err.kind # "UnsupportedFormat"
    /\ frame.err.kind # "UnsupportedFormat"

\* run_sql is past the binding loop over a catalog that holds a db entry and
\* a parquet entry
C10_Witness ==
    /\ pc = "finally"
    /\ frame.stage = "exec"
    /\ {frame.catalog[i][2].format : i \in 1..Len(frame.catalog)} = {db, parquet}

C5_EmptyQueryRejected ==
    /\ (pc # "idle" => Strip(frame.sql) # <<>>)
    /\ (ret.op = "run_sql" /\ Strip(ret.arg[1]) = <<>> => ret.err.kind = "EmptyQuery")

\* the entries binding has gone through, and the name each was bound under
FlatIndexes == {i \in 1..Len(frame.catalog) : frame.catalog[i][2].format \in FlatFormats}
BoundName(i) == ViewName(frame.catalog[i][1], frame.register)

\* C9: csv/parquet entries are bound with create-or-replace semantics: equal
\* effective names do not make binding fail, and after binding a name refers
\* to the entry bound last under it.
C9_CreateOrReplace ==
    /\ frame.err.kind # "ViewExists"
    /\ (pc = "bind" /\ frame.idx > Len(frame.catalog) =>
          \A i \in FlatIndexes :
             /\ BoundName(i) \in DOMAIN con.views
             /\ \E j \in FlatIndexes :
                   /\ BoundName(j) = BoundName(i)
                   /\ \A k \in FlatIndexes : BoundName(k) = BoundName(i) => k <= j
                   /\ con.views[BoundName(i)] = frame.catalog[j][2].path)

(***************************************************************************)
(* C7: preview truncation                                                  *)
(***************************************************************************)
\* C7: for a registered csv or parquet dataset with n rows, load_df(name,
\* limit=k) returns the first k rows with the file's columns for every
\* 0 <= k < n, and limit=None returns all n rows.
C7_PreviewTruncation ==
    (ret.op = "load_df" /\ ret.name \in DOMAIN StoredBefore
        /\ StoredBefore[ret.name].format \in FlatFormats) =>
        LET file == ReadFlat(StoredBefore[ret.name].path)
            limit == ret.arg[2]
        IN /\ ret.ok
           /\ ret.val.columns = file.columns
           /\ (limit = None => ret.val.rows = file.rows)
           /\ (limit # None /\ limit[1] < Len(file.rows) =>
                 /\ Len(ret.val.rows) = limit[1]
                 /\ ret.val.rows = SubSeq(file.rows, 1, limit[1]))

====
